---- MODULE Spec2Model ----
(***************************************************************************)
(* Model of the video processing service (src/app.py, src/config.py).      *)
(*                                                                         *)
(* One job is one call of process_video (ingest) followed by one run of    *)
(* process_video_task (the background task).  asyncio runs one coroutine   *)
(* at a time, so the code between two awaits is atomic; a step of a task   *)
(* is one external effect (a Redis SET, a Redis EXPIRE, the spawn of the   *)
(* script, its exit, the webhook call) together with the synchronous code  *)
(* that follows it up to the next external effect.  Every Redis call can   *)
(* raise (the store is unreachable), every file operation the code guards  *)
(* with try/except can fail.                                               *)
(*                                                                         *)
(* Spec leaves the clock at 0; SpecTimed lets hours pass between the steps *)
(* (Redis time to live, sleep of delete_file_after_delay); SpecLive is the *)
(* service with a store that accepts the writes of the tasks, under weak   *)
(* fairness of the steps of each task.                                     *)
(***************************************************************************)
EXTENDS Integers, Sequences, FiniteSets, TLC

\* ------------------------------------------------------------------ bounds

\* Number of task ids uuid4 hands out (number of accepted ingest calls).
MaxJobs == 1

Ids == 1..MaxJobs

\* The clock counts hours, up to MaxTime.
MaxTime == 3

\* ------------------------------------------------------- program constants

FADE_MIN == 0
FADE_MAX == 10
FADE_DEFAULT == 3

\* config.FILE_RETENTION_HOURS
FILE_RETENTION_HOURS == 1

\* ttl_seconds = (config.FILE_RETENTION_HOURS + 1) * 3600, in hours.
TtlHours == FILE_RETENTION_HOURS + 1

\* ------------------------------------------------------------- file names
\* A name is a sequence of characters, so that str.endswith is computed.

DotZip == <<".", "z", "i", "p">>
DotMp3 == <<".", "m", "p", "3">>
DotMp4 == <<".", "m", "p", "4">>

MusicName == <<"m", "u", "s", "i", "c">> \o DotMp3
ResultName == <<"r", "e", "s", "u", "l", "t">> \o DotMp4

EndsWith(name, suffix) ==
    /\ Len(name) >= Len(suffix)
    /\ SubSeq(name, Len(name) - Len(suffix) + 1, Len(name)) = suffix

\* ------------------------------------------------------------ int(text)

Digits == <<"0", "1", "2", "3", "4", "5", "6", "7", "8", "9">>

IsDigit(c) == \E d \in 1..10 : Digits[d] = c

DigitValue(c) == (CHOOSE d \in 1..10 : Digits[d] = c) - 1

RECURSIVE DigitsValue(_)
DigitsValue(s) ==
    IF s = <<>> THEN 0
    ELSE 10 * DigitsValue(SubSeq(s, 1, Len(s) - 1)) + DigitValue(s[Len(s)])

AllDigits(s) == s # <<>> /\ \A i \in 1..Len(s) : IsDigit(s[i])

\* int(text) succeeds on an optional sign followed by decimal digits.
IntParses(text) ==
    IF text # <<>> /\ text[1] \in {"-", "+"}
    THEN AllDigits(Tail(text))
    ELSE AllDigits(text)

IntValue(text) ==
    IF text[1] = "-" THEN 0 - DigitsValue(Tail(text))
    ELSE IF text[1] = "+" THEN DigitsValue(Tail(text))
    ELSE DigitsValue(text)

\* form.get("fade_duration", "3") followed by int(...) with the bare except.
FadeOf(field) ==
    LET text == IF field.present THEN field.text ELSE <<"3">>
    IN  IF IntParses(text) THEN IntValue(text) ELSE FADE_DEFAULT

\* An upper limit that lets 11 through.
FadeInRangeLoose(n) == ~(n < FADE_MIN \/ n > FADE_MAX + 1)

FadeInRange(n) == ~(n < FADE_MIN \/ n > FADE_MAX)

\* The validation of process_video: "ok" or the first check that rejects.
Validate(form) ==
    IF ~form.video.present THEN "no_video"
    ELSE IF ~form.audio.present THEN "no_audio"
    ELSE IF ~EndsWith(form.video.filename, DotZip) THEN "not_zip"
    ELSE IF ~EndsWith(form.audio.filename, DotMp3) THEN "not_mp3"
    ELSE IF ~FadeInRange(FadeOf(form.fade)) THEN "fade_range"
    ELSE "ok"

\* ------------------------------------------------------------ the inputs

Part(name) == [present |-> TRUE, filename |-> name]
NoPart == [present |-> FALSE, filename |-> <<>>]

VideoParts ==
    { NoPart,
      Part(<<"a">> \o DotZip),
      Part(<<"a", ".", "Z", "I", "P">>) }

AudioParts ==
    { NoPart,
      Part(<<"m">> \o DotMp3),
      Part(<<"m">> \o DotMp3 \o <<".", "b", "a", "k">>) }

Field(text) == [text |-> text, present |-> TRUE]
NoField == [text |-> <<>>, present |-> FALSE]

FadeFields ==
    { NoField,
      Field(<<"a", "b">>),
      Field(<<"3", ".", "5">>),
      Field(<<"-", "1">>),
      Field(<<"0">>),
      Field(<<"1", "0">>),
      Field(<<"1", "1">>),
      Field(<<"1", "5">>) }

Forms == [video : VideoParts, audio : AudioParts, fade : FadeFields]

\* The form of a well-formed client, used where the job itself is studied.
GoodForm ==
    [video |-> Part(<<"a">> \o DotZip),
     audio |-> Part(<<"m">> \o DotMp3),
     fade |-> NoField]

NoForm == [video |-> NoPart, audio |-> NoPart, fade |-> NoField]

\* The uploaded archive: unreadable, or a set of entry names.
Archive(ok, entries) == [ok |-> ok, entries |-> entries, exists |-> TRUE]
NoFile == [ok |-> FALSE, entries |-> {}, exists |-> FALSE]

Archives ==
    { Archive(FALSE, {}),
      Archive(TRUE, { <<"n", ".", "t", "x", "t">>, <<"1", ".", "M", "P", "4">> }),
      Archive(TRUE, { <<"1">> \o DotMp4, <<"2">> \o DotMp4 }) }

\* --------------------------------------------------------- status records

\* The status writes of the program, named by where they are made.
Writes ==
    { "pending", "processing_unpack", "failed_zip_missing", "failed_unpack",
      "failed_no_mp4", "failed_music", "processing_run",
      "failed_script_missing", "failed_script_perm", "failed_exit",
      "failed_no_result", "success", "failed_exception" }

StatusOf(w) ==
    CASE w = "pending" -> "pending"
      [] w \in {"processing_unpack", "processing_run"} -> "processing"
      [] w = "success" -> "success"
      [] OTHER -> "failed"

\* The except clause also passing the output file name.
KwargsOfLeaky(w) ==
    CASE w \in {"pending", "processing_unpack", "processing_run"} -> {"message"}
      [] w = "success" ->
            {"message", "output_file", "file_size", "expires_at", "completed_at"}
      [] w = "failed_exception" -> {"error", "details", "output_file"}
      [] OTHER -> {"error"}

\* The keyword arguments save_task_status is called with at each write.
KwargsOf(w) ==
    CASE w \in {"pending", "processing_unpack", "processing_run"} -> {"message"}
      [] w = "success" ->
            {"message", "output_file", "file_size", "expires_at", "completed_at"}
      [] w = "failed_exception" -> {"error", "details"}
      [] OTHER -> {"error"}

\* task_data of save_task_status called at time t (created_at is
\* datetime.now()); a Redis SET drops the key's time to live.
Record(w, t) ==
    [status |-> StatusOf(w),
     keys |-> {"task_id", "status", "created_at"} \cup KwargsOf(w),
     created_at |-> t,
     ttl |-> FALSE,
     evict_at |-> 0]

NoRecord ==
    [status |-> "none", keys |-> {}, created_at |-> 0, ttl |-> FALSE, evict_at |-> 0]

\* redis_client.expire(key, ttl_seconds) at time t: a key that exists is
\* given the time to live, a key that does not is left alone.
WithExpiry(rec, t) ==
    IF rec.status = "none" THEN rec
    ELSE [rec EXCEPT !.ttl = TRUE, !.evict_at = t + TtlHours]

\* Redis at time t: a key whose time to live has run out is gone.
Evict(rec, t) == IF rec.ttl /\ rec.evict_at <= t THEN NoRecord ELSE rec

Terminal == {"success", "failed"}


\* ------------------------------------------------------------------ state

VARIABLES
    request,        \* the form of the last ingest call
    response,       \* the response of the last ingest call
    store,          \* Redis: task id -> status record (NoRecord: no key)
    workDir,        \* TEMP_DIR/<id> exists
    workFiles,      \* the file names in TEMP_DIR/<id>
    zipFile,        \* TEMP_DIR/<id>.zip
    outputFile,     \* OUTPUT_DIR/<id>.mp4 exists
    fade,           \* the fade_duration argument of the task
    pc,             \* where the job is: the external effect its task awaits
    cur,            \* the status write the task is making
    deletion,       \* the delete_file_after_delay task of the job
    webhook,        \* what send_webhook_notification did for the job
    runs,           \* how many times process_video_task was started for the id
    spawnCount,     \* how many times the script was spawned for the id
    termWrites,     \* how many records with a terminal status were SET
    stage,          \* the outcome of the job's stages, as the environment gave it
    erred,          \* an exception was raised in the try body of the task
    raised,         \* the Redis call whose exception left the task, or "none"
    cleanupFailed,  \* the removals of the finally block that failed
    now,            \* the clock, in hours
    wakeAt,         \* when the sleep of delete_file_after_delay ends
    written         \* when the pending and the success record were SET (-1: never)

vars ==
    << request, response, store, workDir, workFiles, zipFile, outputFile, fade,
       pc, cur, deletion, webhook, runs, spawnCount, termWrites, stage, erred,
       raised, cleanupFailed, now, wakeAt, written >>

Init ==
    /\ request = NoForm
    /\ response = [code |-> 0, task_id |-> 0, detail |-> "none"]
    /\ store = [j \in Ids |-> NoRecord]
    /\ workDir = [j \in Ids |-> FALSE]
    /\ workFiles = [j \in Ids |-> {}]
    /\ zipFile = [j \in Ids |-> NoFile]
    /\ outputFile = [j \in Ids |-> FALSE]
    /\ fade = [j \in Ids |-> FADE_DEFAULT]
    /\ pc = [j \in Ids |-> "free"]
    /\ cur = [j \in Ids |-> "pending"]
    /\ deletion = [j \in Ids |-> "none"]
    /\ webhook = [j \in Ids |-> "none"]
    /\ runs = [j \in Ids |-> 0]
    /\ spawnCount = [j \in Ids |-> 0]
    /\ termWrites = [j \in Ids |-> 0]
    /\ stage = [j \in Ids |-> "none"]
    /\ erred = [j \in Ids |-> FALSE]
    /\ raised = [j \in Ids |-> "none"]
    /\ cleanupFailed = [j \in Ids |-> {}]
    /\ now = 0
    /\ wakeAt = [j \in Ids |-> 0]
    /\ written = [j \in Ids |-> [first |-> -1, success |-> -1]]

\* ----------------------------------------------------------------- ingest

\* An id generator that hands out ids it has handed out before.
ReusedIds == Ids

\* uuid.uuid4(): an id no earlier call was given.
FreshIds == { j \in Ids : pc[j] = "free" /\ \A k \in Ids : k < j => pc[k] # "free" }

\* Where an accepted call of process_video can raise after the id is made.
IngestFailures == {"none", "zip_write", "music_write", "set", "expire"}

\* The pending record after save_task_status(task_id, "pending", ...).
PendingRecord(fail) ==
    IF fail = "none" THEN WithExpiry(Record("pending", now), now)
    ELSE IF fail = "expire" THEN Record("pending", now)
    ELSE NoRecord

\* A handler that answers 202 although the pending write raised.
IngestResponseSwallow(fail, j) ==
    IF fail \in {"none", "set", "expire"}
    THEN [code |-> 202, task_id |-> j, detail |-> "pending"]
    ELSE [code |-> 500, task_id |-> 0, detail |-> fail]

\* The 202 response with the task id, or the 500 of the except clause.
IngestResponse(fail, j) ==
    IF fail = "none"
    THEN [code |-> 202, task_id |-> j, detail |-> "pending"]
    ELSE [code |-> 500, task_id |-> 0, detail |-> fail]

Reject(form) ==
    /\ Validate(form) # "ok"
    /\ request' = form
    /\ response' = [code |-> 400, task_id |-> 0, detail |-> Validate(form)]
    /\ UNCHANGED << store, workDir, workFiles, zipFile, outputFile, fade, pc, cur,
                    deletion, webhook, runs, spawnCount, termWrites, stage, erred,
                    raised, cleanupFailed, now, wakeAt, written >>

\* created: the file whose writing raised had been opened (it is there,
\* empty or cut short) before the exception.
Accept(form, arch, fail) ==
    /\ Validate(form) = "ok"
    /\ \E j \in FreshIds, created \in BOOLEAN :
        /\ request' = form
        /\ response' = IngestResponse(fail, j)
        /\ fade' = [fade EXCEPT ![j] = FadeOf(form.fade)]
        /\ workDir' = [workDir EXCEPT ![j] = TRUE]
        /\ zipFile' = [zipFile EXCEPT ![j] =
                          IF fail # "zip_write" THEN arch
                          ELSE IF created THEN Archive(FALSE, {}) ELSE NoFile]
        /\ workFiles' = [workFiles EXCEPT ![j] =
                          IF fail = "zip_write" \/ (fail = "music_write" /\ ~created)
                          THEN {}
                          ELSE {MusicName}]
        /\ store' = [store EXCEPT ![j] = PendingRecord(fail)]
        /\ written' = [written EXCEPT ![j].first =
                          IF fail \in {"none", "expire"} THEN now ELSE @]
        /\ pc' = [pc EXCEPT ![j] = IF fail = "none" THEN "queued" ELSE "aborted"]
    /\ UNCHANGED << outputFile, cur, deletion, webhook, runs, spawnCount,
                    termWrites, stage, erred, raised, cleanupFailed, now, wakeAt >>

\* POST /process-video.
ProcessVideo(form, arch, fail) ==
    IF Validate(form) # "ok" THEN Reject(form) ELSE Accept(form, arch, fail)


\* ------------------------------------------------ decisions of the task

\* zip_ref.extractall(work_dir): the entries join the files already there.
Extract(files, arch) == files \cup arch.entries

\* len([f for f in os.listdir(work_dir) if f.endswith('.mp4')])
NumFiles(files) == Cardinality({ f \in files : EndsWith(f, DotMp4) })

\* A task that writes "processing" again and looks again while the archive
\* is missing, instead of failing.
StagingCheckRetry(zipExists, archiveOk, numFiles, musicExists) ==
    IF ~zipExists THEN "processing_unpack"
    ELSE IF ~archiveOk THEN "failed_unpack"
    ELSE IF numFiles = 0 THEN "failed_no_mp4"
    ELSE IF ~musicExists THEN "failed_music"
    ELSE "processing_run"

\* The checks between the first processing write and the second: the write
\* the task makes next.
StagingCheck(zipExists, archiveOk, numFiles, musicExists) ==
    IF ~zipExists THEN "failed_zip_missing"
    ELSE IF ~archiveOk THEN "failed_unpack"
    ELSE IF numFiles = 0 THEN "failed_no_mp4"
    ELSE IF ~musicExists THEN "failed_music"
    ELSE "processing_run"

\* The checks of the script before it is spawned.
ScriptCheck(scriptExists, scriptExecutable) ==
    IF ~scriptExists THEN "failed_script_missing"
    ELSE IF ~scriptExecutable THEN "failed_script_perm"
    ELSE "spawn"

\* After process.communicate(): the failure write, or the move to OUTPUT_DIR.
AfterExit(returncode, resultExists) ==
    IF returncode # 0 THEN "failed_exit"
    ELSE IF ~resultExists THEN "failed_no_result"
    ELSE "move"

\* The webhook call and the scheduling moved behind the except clause.
AfterSaveNotifyAlways(w) ==
    CASE w = "processing_unpack" -> "staging"
      [] w = "processing_run" -> "script_check"
      [] w \in {"success", "failed_exception"} -> "notify"
      [] OTHER -> "return"

\* A task that returns right after the success write.
AfterSaveNoNotify(w) ==
    CASE w = "processing_unpack" -> "staging"
      [] w = "processing_run" -> "script_check"
      [] OTHER -> "return"

\* The failure writes of the staging checks without their return statement.
AfterSaveFallThrough(w) ==
    CASE w \in {"processing_unpack", "failed_zip_missing", "failed_unpack",
                "failed_no_mp4", "failed_music"} -> "staging"
      [] w = "processing_run" -> "script_check"
      [] w = "success" -> "notify"
      [] OTHER -> "return"

\* What the task does once save_task_status(w) has returned.
AfterSave(w) ==
    CASE w = "processing_unpack" -> "staging"
      [] w = "processing_run" -> "script_check"
      [] w = "success" -> "notify"
      [] OTHER -> "return"

\* Where an exception raised while the task makes write w goes: the except
\* clause of the try statement, or, from the except clause itself, out of
\* the task.
OnException(w) == IF w = "failed_exception" THEN "propagate" ELSE "handler"

\* shutil.rmtree / os.remove of the finally block, each in its own try.
RemoveTree(exists, fails) == exists /\ fails

\* The finally block without the removal of the archive.
RemoveFileSkipped(file, fails) == file

RemoveFile(file, fails) == IF file.exists /\ fails THEN file ELSE NoFile

\* A move to a path other than OUTPUT_DIR/<id>.mp4.
MoveOutputElsewhere(out, err) == out

\* shutil.move(result_path, output_path): OUTPUT_DIR/<id>.mp4 afterwards; a
\* move that raises leaves nothing ("move") or a partial copy.
MoveOutput(out, err) == IF err = "move" THEN out ELSE TRUE

\* os.remove of delete_file_after_delay.
RemoveOutput(exists, fails) == exists /\ fails

\* ------------------------------------------ the stages, as they came out

StagingFact(zipExists, archiveOk, numFiles, musicExists) ==
    CASE ~zipExists -> "zip_missing"
      [] zipExists /\ ~archiveOk -> "zip_corrupt"
      [] zipExists /\ archiveOk /\ numFiles = 0 -> "no_mp4"
      [] zipExists /\ archiveOk /\ numFiles > 0 /\ ~musicExists -> "music_missing"
      [] OTHER -> "staged"

ScriptFact(scriptExists, scriptExecutable) ==
    CASE ~scriptExists -> "script_missing"
      [] scriptExists /\ ~scriptExecutable -> "script_not_executable"
      [] OTHER -> "ready"

ExitFact(returncode, resultExists) ==
    CASE returncode # 0 -> "exit_nonzero"
      [] returncode = 0 /\ ~resultExists -> "no_result"
      [] OTHER -> "ok"

PreExecutionFailures ==
    { "zip_missing", "zip_corrupt", "no_mp4", "music_missing", "script_missing",
      "script_not_executable" }

\* --------------------------------------------------- control of one task

Goto(j, at, w) ==
    /\ pc' = [pc EXCEPT ![j] = at]
    /\ cur' = [cur EXCEPT ![j] = w]
    /\ UNCHANGED << erred, raised, cleanupFailed >>

\* except Exception: the next effect is the SET of the failed record.
Handler(j) ==
    /\ pc' = [pc EXCEPT ![j] = "set"]
    /\ cur' = [cur EXCEPT ![j] = "failed_exception"]
    /\ erred' = [erred EXCEPT ![j] = TRUE]
    /\ UNCHANGED << raised, cleanupFailed >>

\* finally: both removals are attempted, then the task ends; call names the
\* Redis call whose exception leaves the task ("none": it returns).
Finally(j, call) ==
    \E treeFails \in {FALSE, workDir[j]}, zipFails \in {FALSE, zipFile[j].exists} :
        /\ workDir' = [workDir EXCEPT ![j] = RemoveTree(workDir[j], treeFails)]
        /\ workFiles' = [workFiles EXCEPT ![j] =
                            IF RemoveTree(workDir[j], treeFails) THEN @ ELSE {}]
        /\ zipFile' = [zipFile EXCEPT ![j] = RemoveFile(zipFile[j], zipFails)]
        /\ cleanupFailed' = [cleanupFailed EXCEPT ![j] =
                                (IF treeFails THEN {"work_dir"} ELSE {})
                                \cup (IF zipFails THEN {"zip"} ELSE {})]
        /\ pc' = [pc EXCEPT ![j] = "done"]
        /\ raised' = [raised EXCEPT ![j] = call]
        /\ UNCHANGED << cur, erred >>

\* A Redis call of save_task_status raises.
RaiseFrom(j, call) ==
    IF OnException(cur[j]) = "propagate"
    THEN Finally(j, call)
    ELSE Handler(j) /\ UNCHANGED << workDir, workFiles, zipFile >>

\* --------------------------------------------------- process_video_task

\* The background task starts: the first effect is the SET of "processing".
StartTask(j) ==
    /\ pc[j] = "queued"
    /\ runs' = [runs EXCEPT ![j] = @ + 1]
    /\ Goto(j, "set", "processing_unpack")
    /\ UNCHANGED << request, response, store, workDir, workFiles, zipFile,
                    outputFile, fade, deletion, webhook, spawnCount, termWrites,
                    stage, now, wakeAt, written >>

\* await redis_client.set(key, json.dumps(task_data))
SetStep(j, ok) ==
    /\ pc[j] = "set"
    /\ IF ok
       THEN /\ store' = [store EXCEPT ![j] = Record(cur[j], now)]
            /\ written' = [written EXCEPT ![j].success =
                              IF cur[j] = "success" THEN now ELSE @]
            /\ termWrites' = [termWrites EXCEPT ![j] =
                                 IF StatusOf(cur[j]) \in Terminal THEN @ + 1 ELSE @]
            /\ Goto(j, "expire", cur[j])
            /\ UNCHANGED << workDir, workFiles, zipFile >>
       ELSE /\ UNCHANGED << store, termWrites, written >>
            /\ RaiseFrom(j, "SET")
    /\ UNCHANGED << request, response, outputFile, fade, deletion, webhook, runs,
                    spawnCount, stage, now, wakeAt >>

\* After the first processing write: the archive is unpacked and checked.
\* The archive or the music file may have been removed by then, and
\* os.listdir can raise once the archive is unpacked.
Staging(j) ==
    \E zipGone \in BOOLEAN, musicGone \in BOOLEAN, listFails \in BOOLEAN :
        LET zf == IF zipGone THEN NoFile ELSE zipFile[j]
            unpacked == IF zf.exists /\ zf.ok
                        THEN Extract(workFiles[j], zf) ELSE workFiles[j]
            files == IF musicGone THEN unpacked \ {MusicName} ELSE unpacked
            n == NumFiles(files)
        IN  /\ listFails => zf.exists /\ zf.ok
            /\ zipFile' = [zipFile EXCEPT ![j] = zf]
            /\ workFiles' = [workFiles EXCEPT ![j] = files]
            /\ UNCHANGED workDir
            /\ IF listFails
               THEN /\ UNCHANGED stage
                    /\ Handler(j)
               ELSE /\ stage' = [stage EXCEPT ![j] =
                            StagingFact(zf.exists, zf.ok, n, MusicName \in files)]
                    /\ Goto(j, "set",
                            StagingCheck(zf.exists, zf.ok, n, MusicName \in files))

\* After the second processing write: the script is checked.
ScriptStage(j) ==
    \E scriptExists \in BOOLEAN, scriptExecutable \in BOOLEAN :
        /\ scriptExecutable => scriptExists
        /\ stage' = [stage EXCEPT ![j] = ScriptFact(scriptExists, scriptExecutable)]
        /\ LET next == ScriptCheck(scriptExists, scriptExecutable)
           IN  IF next = "spawn"
               THEN Goto(j, "spawn", cur[j])
               ELSE Goto(j, "set", next)
        /\ UNCHANGED << workDir, workFiles, zipFile >>

\* await redis_client.expire(key, ttl_seconds), and the code of the task up
\* to its next effect.
ExpireStep(j, ok) ==
    /\ pc[j] = "expire"
    /\ IF ok
       THEN /\ store' = [store EXCEPT ![j] = WithExpiry(@, now)]
            /\ CASE AfterSave(cur[j]) = "staging" -> Staging(j)
                 [] AfterSave(cur[j]) = "script_check" -> ScriptStage(j)
                 [] AfterSave(cur[j]) = "notify" ->
                        /\ Goto(j, "webhook", cur[j])
                        /\ UNCHANGED << workDir, workFiles, zipFile, stage >>
                 [] OTHER ->
                        /\ Finally(j, "none")
                        /\ UNCHANGED stage
       ELSE /\ UNCHANGED << store, stage >>
            /\ RaiseFrom(j, "EXPIRE")
    /\ UNCHANGED << request, response, outputFile, fade, deletion, webhook, runs,
                    spawnCount, termWrites, now, wakeAt, written >>

\* await asyncio.create_subprocess_exec(script_path, ...)
SpawnStep(j, ok) ==
    /\ pc[j] = "spawn"
    /\ IF ok
       THEN /\ spawnCount' = [spawnCount EXCEPT ![j] = @ + 1]
            /\ Goto(j, "communicate", cur[j])
       ELSE /\ UNCHANGED spawnCount
            /\ Handler(j)
    /\ UNCHANGED << request, response, store, workDir, workFiles, zipFile,
                    outputFile, fade, deletion, webhook, runs, termWrites, stage,
                    now, wakeAt, written >>

\* What can go wrong between the exit of the script and the success write.
ExitErrors == {"none", "decode", "move", "move_partial", "getsize"}

\* await process.communicate() returns, and the code up to the next write.
ExitStep(j, returncode, produced, err) ==
    /\ pc[j] = "communicate"
    /\ LET files == workFiles[j] \cup (IF produced THEN {ResultName} ELSE {})
           next == AfterExit(returncode, ResultName \in files)
       IN  /\ stage' = [stage EXCEPT ![j] = ExitFact(returncode, ResultName \in files)]
           /\ IF err = "decode"
              THEN /\ workFiles' = [workFiles EXCEPT ![j] = files]
                   /\ UNCHANGED outputFile
                   /\ Handler(j)
              ELSE IF next # "move"
              THEN /\ err = "none"
                   /\ workFiles' = [workFiles EXCEPT ![j] = files]
                   /\ UNCHANGED outputFile
                   /\ Goto(j, "set", next)
              ELSE IF ResultName \notin files
              THEN /\ err = "move"
                   /\ workFiles' = [workFiles EXCEPT ![j] = files]
                   /\ UNCHANGED outputFile
                   /\ Handler(j)
              ELSE IF err \in {"move", "move_partial"}
              THEN /\ workFiles' = [workFiles EXCEPT ![j] = files]
                   /\ outputFile' = [outputFile EXCEPT ![j] = MoveOutput(@, err)]
                   /\ Handler(j)
              ELSE /\ workFiles' = [workFiles EXCEPT ![j] = files \ {ResultName}]
                   /\ outputFile' = [outputFile EXCEPT ![j] = MoveOutput(@, err)]
                   /\ IF err = "getsize" THEN Handler(j) ELSE Goto(j, "set", "success")
    /\ UNCHANGED << request, response, store, workDir, zipFile, fade, deletion,
                    webhook, runs, spawnCount, termWrites, now, wakeAt, written >>

WebhookOutcomes == {"unconfigured", "delivered", "refused", "timeout", "error"}

\* The outcomes for which send_webhook_notification lets an exception out.
\* A version whose try statement does not cover connection errors.
WebhookRaisesOnError(outcome) == outcome = "error"

\* send_webhook_notification returns without a request when no URL is
\* configured, and catches httpx.TimeoutException and Exception around the
\* request: no outcome raises.
WebhookRaises(outcome) == FALSE

\* asyncio.create_task(delete_file_after_delay(...)), whose sleep of
\* FILE_RETENTION_HOURS starts now, then the finally block.
ScheduleAndFinish(j) ==
    /\ deletion' = [deletion EXCEPT ![j] = "armed"]
    /\ wakeAt' = [wakeAt EXCEPT ![j] = now + FILE_RETENTION_HOURS]
    /\ Finally(j, "none")

\* await send_webhook_notification(task_data): the request is made (or, with
\* no URL configured, the call returns at once and the task goes on).
WebhookStep(j, outcome) ==
    /\ pc[j] = "webhook"
    /\ webhook' = [webhook EXCEPT ![j] = outcome]
    /\ IF outcome = "unconfigured"
       THEN ScheduleAndFinish(j)
       ELSE /\ Goto(j, "webhook_sent", cur[j])
            /\ UNCHANGED << deletion, wakeAt, workDir, workFiles, zipFile >>
    /\ UNCHANGED << request, response, store, outputFile, fade, runs, spawnCount,
                    termWrites, stage, now, written >>

\* The webhook call ends (response, timeout or error) and the task goes on.
WebhookReturn(j) ==
    /\ pc[j] = "webhook_sent"
    /\ IF WebhookRaises(webhook[j])
       THEN /\ Handler(j)
            /\ UNCHANGED << deletion, wakeAt, workDir, workFiles, zipFile >>
       ELSE ScheduleAndFinish(j)
    /\ UNCHANGED << request, response, store, outputFile, fade, webhook, runs,
                    spawnCount, termWrites, stage, now, written >>

\* delete_file_after_delay once its sleep is over.
DeleteFileAfterDelay(j, fails) ==
    /\ deletion[j] = "armed"
    /\ fails => outputFile[j]
    /\ deletion' = [deletion EXCEPT ![j] = "fired"]
    /\ outputFile' = [outputFile EXCEPT ![j] = RemoveOutput(outputFile[j], fails)]
    /\ UNCHANGED << request, response, store, workDir, workFiles, zipFile, fade,
                    pc, cur, webhook, runs, spawnCount, termWrites, stage, erred,
                    raised, cleanupFailed, now, wakeAt, written >>

\* delete_file_after_delay, with the time its sleep takes.
DeleteWhenDue(j, fails) ==
    /\ now >= wakeAt[j]
    /\ DeleteFileAfterDelay(j, fails)

\* An hour passes: Redis drops the keys whose time to live has run out.  A
\* sleep that is over does not wait for the next hour.
Tick ==
    /\ now < MaxTime
    /\ \A j \in Ids : deletion[j] = "armed" => now < wakeAt[j]
    /\ now' = now + 1
    /\ store' = [j \in Ids |-> Evict(store[j], now + 1)]
    /\ UNCHANGED << request, response, workDir, workFiles, zipFile, outputFile,
                    fade, pc, cur, deletion, webhook, runs, spawnCount, termWrites,
                    stage, erred, raised, cleanupFailed, wakeAt, written >>

\* ------------------------------------------------------- specifications

Ingest ==
    \E arch \in Archives, fail \in IngestFailures : ProcessVideo(GoodForm, arch, fail)

Start == \E j \in Ids : StartTask(j)

Set == \E j \in Ids, ok \in BOOLEAN : SetStep(j, ok)

Expire == \E j \in Ids, ok \in BOOLEAN : ExpireStep(j, ok)

Spawn == \E j \in Ids, ok \in BOOLEAN : SpawnStep(j, ok)

Exit ==
    \E j \in Ids, returncode \in {0, 1}, produced \in BOOLEAN, err \in ExitErrors :
        ExitStep(j, returncode, produced, err)

Webhook == \E j \in Ids, outcome \in WebhookOutcomes : WebhookStep(j, outcome)

WebhookDone == \E j \in Ids : WebhookReturn(j)

Delete == \E j \in Ids, fails \in BOOLEAN : DeleteFileAfterDelay(j, fails)

Next ==
    Ingest \/ Start \/ Set \/ Expire \/ Spawn \/ Exit \/ Webhook \/ WebhookDone
    \/ Delete

Spec == Init /\ [][Next]_vars

\* The ingest call alone, over every form; the upload is one fixed archive,
\* and the call can fail only once the form has been accepted.
UploadOf(form) ==
    IF form.video.present
    THEN Archive(TRUE, { <<"1">> \o DotMp4, <<"2">> \o DotMp4 })
    ELSE NoFile

FailuresOf(form) == IF Validate(form) = "ok" THEN IngestFailures ELSE {"none"}

IngestAny ==
    \E form \in Forms :
        \E fail \in FailuresOf(form) : ProcessVideo(form, UploadOf(form), fail)

SpecIngest == Init /\ [][IngestAny]_vars

\* The store accepts every write of the tasks: the two Redis calls of
\* save_task_status return.
SetAccepted == \E j \in Ids : SetStep(j, TRUE)

ExpireAccepted == \E j \in Ids : ExpireStep(j, TRUE)

NextLive ==
    Ingest \/ Start \/ SetAccepted \/ ExpireAccepted \/ Spawn \/ Exit \/ Webhook
    \/ WebhookDone \/ Delete

\* The step job j's task takes next: the event loop resumes a task whose
\* awaited call has returned, the script exits, and the webhook call returns
\* within its timeout.
TaskStep(j) ==
    \/ StartTask(j)
    \/ SetStep(j, TRUE)
    \/ ExpireStep(j, TRUE)
    \/ \E ok \in BOOLEAN : SpawnStep(j, ok)
    \/ \E returncode \in {0, 1}, produced \in BOOLEAN, err \in ExitErrors :
           ExitStep(j, returncode, produced, err)
    \/ \E outcome \in WebhookOutcomes : WebhookStep(j, outcome)
    \/ WebhookReturn(j)

SpecLive == Init /\ [][NextLive]_vars /\ \A j \in Ids : WF_vars(TaskStep(j))

\* The service with its clock: time passes between the steps, the records
\* run out and the deletion waits for the end of its sleep.
DeleteDue == \E j \in Ids, fails \in BOOLEAN : DeleteWhenDue(j, fails)

NextTimed ==
    Ingest \/ Start \/ Set \/ Expire \/ Spawn \/ Exit \/ Webhook \/ WebhookDone
    \/ DeleteDue \/ Tick

SpecTimed == Init /\ [][NextTimed]_vars


\* ================================================================ claims

Rank(status) ==
    CASE status = "none" -> 0
      [] status = "pending" -> 1
      [] status = "processing" -> 2
      [] OTHER -> 3

\* C1: the status stored for a job only moves along pending -> processing ->
\* {success | failed}: it never goes back, and a success or failed status
\* never changes again.
C1_StatusMonotone ==
    [][\A j \in Ids :
          /\ Rank(store[j].status) <= Rank(store'[j].status)
          /\ store[j].status \in Terminal => store'[j].status = store[j].status]_vars

\* C2: a run of process_video_task that has ended has SET exactly one record
\* with status success or failed.
C2_ExactlyOneTerminalWrite ==
    \A j \in Ids : pc[j] = "done" => termWrites[j] = 1

\* C3: once the run of a job has ended, its working directory and its staged
\* archive are gone unless their removal in the finally block failed; this
\* holds however the run ended.
C3_CleanupUnconditional ==
    \A j \in Ids :
        pc[j] = "done" =>
            /\ workDir[j] => "work_dir" \in cleanupFailed[j]
            /\ zipFile[j].exists => "zip" \in cleanupFailed[j]

\* C3 witness: the except clause itself raised, and both paths were removed.
C3_Witness ==
    \E j \in Ids :
        /\ pc[j] = "done"
        /\ raised[j] = "SET"
        /\ erred[j]
        /\ ~workDir[j]
        /\ ~zipFile[j].exists

C6_PreExecutionFailure ==
    \A j \in Ids :
        (pc[j] = "done" /\ stage[j] \in PreExecutionFailures) =>
            store[j].status = "failed" /\ spawnCount[j] = 0

\* C7: the status a job ends with is success if every stage came out well
\* and no exception was raised, and failed in every other case.
C7_StatusOfOutcomes ==
    \A j \in Ids :
        pc[j] = "done" =>
            store[j].status = (IF stage[j] = "ok" /\ ~erred[j] THEN "success"
                               ELSE "failed")

\* C8: a stored record has output_file exactly when its status is success,
\* file_size, expires_at and completed_at only when it is success, and error
\* and details only when it is failed.
C8_FieldsByStatus ==
    \A j \in Ids :
        store[j].status # "none" =>
            /\ "output_file" \in store[j].keys <=> store[j].status = "success"
            /\ store[j].keys \cap {"file_size", "expires_at", "completed_at"} # {}
                  => store[j].status = "success"
            /\ store[j].keys \cap {"error", "details"} # {}
                  => store[j].status = "failed"

\* C8 witness: a success record, with its output reference, is stored.
C8_Witness ==
    \E j \in Ids :
        /\ store[j].status = "success"
        /\ {"output_file", "file_size", "expires_at", "completed_at"}
              \subseteq store[j].keys

\* C9: while a job's record reads success and its deferred deletion has not
\* fired, OUTPUT_DIR/<id>.mp4 exists.
C9_SuccessHasArtifact ==
    \A j \in Ids :
        (store[j].status = "success" /\ deletion[j] # "fired") => outputFile[j]

\* C9 witness: success is stored, the deletion is scheduled and has not fired.
C9_Witness ==
    \E j \in Ids :
        /\ store[j].status = "success"
        /\ deletion[j] = "armed"
        /\ outputFile[j]
        /\ ResultName \notin workFiles[j]

\* The inputs C10 names, from the form alone.
BadInput(form) ==
    \/ ~form.video.present
    \/ ~form.audio.present
    \/ ~EndsWith(form.video.filename, DotZip)
    \/ ~EndsWith(form.audio.filename, DotMp3)
    \/ /\ form.fade.present
       /\ IntParses(form.fade.text)
       /\ IntValue(form.fade.text) \notin 0..10

Defaulted(form) == ~form.fade.present \/ ~IntParses(form.fade.text)

\* C10: an ingest call with a bad input is answered 400 and creates nothing
\* (no id, status record, file, directory or task); a call with good inputs
\* is not rejected, and its task gets fade 3 when fade_duration is absent or
\* does not parse, the parsed value otherwise.
C10_IngestValidation ==
    [][/\ BadInput(request') =>
            /\ response'.code = 400
            /\ UNCHANGED << store, workDir, workFiles, zipFile, outputFile, fade,
                            pc, cur, runs >>
       /\ (~BadInput(request') /\ FreshIds # {}) =>
            /\ response'.code \in {202, 500}
            /\ \E j \in FreshIds :
                /\ pc'[j] # "free"
                /\ fade'[j] = IF Defaulted(request') THEN 3
                              ELSE IntValue(request'.fade.text)]_vars

\* C10 witness: fade_duration=15 was rejected and no id has been used.
C10_Witness ==
    /\ request.video.present
    /\ request.audio.present
    /\ request.fade = Field(<<"1", "5">>)
    /\ response.code = 400
    /\ \A j \in Ids : pc[j] = "free" /\ store[j] = NoRecord /\ ~workDir[j]


\* C11: an ingest call whose pending write raises (the files were staged,
\* the record was not stored with its expiry) answers 500 without a task id,
\* and no background task is ever started for the id.
C11_StoreDownAtIngest ==
    [][\A j \in Ids :
          /\ (/\ pc[j] = "free"
              /\ pc'[j] # "free"
              /\ MusicName \in workFiles'[j]
              /\ ~store'[j].ttl) =>
                 /\ response'.code = 500
                 /\ response'.task_id = 0
                 /\ pc'[j] = "aborted"
          /\ pc[j] = "aborted" => pc'[j] = "aborted"
          /\ pc'[j] = "aborted" => runs'[j] = 0 /\ spawnCount'[j] = 0]_vars

\* C11 witness: the SET of the pending record was rejected after both files
\* were written.
C11_Witness ==
    \E j \in Ids :
        /\ pc[j] = "aborted"
        /\ MusicName \in workFiles[j]
        /\ zipFile[j].exists
        /\ store[j] = NoRecord
        /\ response.code = 500

\* C12: the webhook call and the scheduling of the deferred deletion happen
\* only for a job whose stored status is success, each at most once; a job
\* whose status is failed has neither.
C12_NotifyOnlyOnSuccess ==
    [][\A j \in Ids :
          /\ (webhook'[j] # "none" \/ deletion'[j] # "none") =>
                store'[j].status = "success"
          /\ store'[j].status = "failed" =>
                webhook'[j] = "none" /\ deletion'[j] = "none"
          /\ webhook[j] # "none" => webhook'[j] = webhook[j]
          /\ deletion[j] = "armed" => deletion'[j] \in {"armed", "fired"}
          /\ deletion[j] = "fired" => deletion'[j] = "fired"]_vars

\* C12 witness: the webhook was delivered and the deletion is scheduled.
C12_Witness ==
    \E j \in Ids :
        /\ webhook[j] = "delivered"
        /\ deletion[j] = "armed"
        /\ store[j].status = "success"

SameStatus(j) ==
    /\ store'[j].status = store[j].status
    /\ store'[j].keys = store[j].keys

\* C13: a failed webhook call leaves the success record as it was, the step
\* in which a removal of the finally block fails and the step of the deferred
\* deletion do not change the status record, and when one removal of the
\* finally block fails the other path is removed all the same.
C13_BestEffortErrors ==
    [][\A j \in Ids :
          /\ webhook'[j] \in {"refused", "timeout", "error"} =>
                /\ store'[j].status = "success"
                /\ "output_file" \in store'[j].keys
          /\ cleanupFailed'[j] # {} => SameStatus(j)
          /\ deletion'[j] = "fired" => SameStatus(j)
          /\ cleanupFailed'[j] = {"work_dir"} => ~zipFile'[j].exists
          /\ cleanupFailed'[j] = {"zip"} => ~workDir'[j]]_vars

\* C13 witness: the webhook timed out, the removal of the working directory
\* failed, the archive was removed, the deferred removal failed, and the
\* record still reads success.
C13_Witness ==
    \E j \in Ids :
        /\ pc[j] = "done"
        /\ webhook[j] = "timeout"
        /\ cleanupFailed[j] = {"work_dir"}
        /\ workDir[j]
        /\ ~zipFile[j].exists
        /\ deletion[j] = "fired"
        /\ outputFile[j]
        /\ store[j].status = "success"

\* C14: every record stored for a job carries the created_at of the first
\* record stored for it.
C14_CreatedAtFixed ==
    \A j \in Ids : store[j].status # "none" => store[j].created_at = written[j].first

\* C15: no record of a job is in the store later than
\* FILE_RETENTION_HOURS + 1 hours after its pending record was written.
C15_RecordLifetime ==
    \A j \in Ids :
        (written[j].first >= 0 /\ now > written[j].first + TtlHours) =>
            store[j].status = "none"

\* C16: the output file of a job is gone once more than FILE_RETENTION_HOURS
\* have passed since its success record was written.
C16_ArtifactLifetime ==
    \A j \in Ids :
        (written[j].success >= 0 /\ now > written[j].success + FILE_RETENTION_HOURS) =>
            ~outputFile[j]

C19_RecordHasExpiry ==
    \A j \in Ids : store[j].status # "none" => store[j].ttl

\* C20: a job that has ended with stored status failed has no
\* OUTPUT_DIR/<id>.mp4.
C20_FailedHasNoArtifact ==
    \A j \in Ids :
        (pc[j] = "done" /\ store[j].status = "failed") => ~outputFile[j]

\* C21: once an ingest call has failed after the task id was made, the
\* working directory, the staged archive, the staged music file and the
\* status record of the id are all absent.
C21_FailedIngestLeavesNothing ==
    \A j \in Ids :
        pc[j] = "aborted" =>
            /\ ~workDir[j]
            /\ ~zipFile[j].exists
            /\ MusicName \notin workFiles[j]
            /\ store[j].status = "none"

====
